---- MODULE Spec2Model ----
(***************************************************************************)
(* Model of cleaningjson.py: convert_excel_to_json(excel_file_path,        *)
(* json_output_path), which loads the first sheet of a workbook with       *)
(* pandas, normalizes the column names, serializes the rows to JSON        *)
(* records and writes them to the output path.                             *)
(*                                                                         *)
(* A string is a sequence of one-character strings, so that strip, lower   *)
(* and the regular-expression replacement are computed character by        *)
(* character.                                                              *)
(***************************************************************************)
EXTENDS Integers, Sequences, FiniteSets, TLC

VARIABLES
    \* --- the column-name pipeline of line 28, applied to one header
    nraw,       \* the raw header
    ncur,       \* the value flowing through .str.strip().str.lower().str.replace()
    nagain,     \* the result of normalizing the normalized header once more
    npc,        \* "strip", "lower", "replace", "done", "redone" ("idle" under Spec)
    \* --- one call of convert_excel_to_json
    pc,         \* position in the function body
    inputExists,\* os.path.exists(excel_file_path) at the time of the call
    sheet,      \* first sheet of the workbook: [headers, rows]
    outPrior,   \* the file at json_output_path before the call
    outFile,    \* the file at json_output_path now
    df,         \* the DataFrame: [columns, rows]
    data_list,  \* the list of records returned by json.loads
    printed,    \* what print() has written, in order
    exc,        \* the exception raised inside the try block, if any
    result      \* "pending", "True", "False", or "raised" if an exception escapes

nvars == <<nraw, ncur, nagain, npc>>
cvars == <<pc, inputExists, sheet, outPrior, outFile, df, data_list, printed, exc, result>>
vars == <<nraw, ncur, nagain, npc, pc, inputExists, sheet, outPrior, outFile, df,
          data_list, printed, exc, result>>

\* ------------------------------------------------------------------ bounds
MaxLen == 3      \* longest raw header enumerated for the column-name pipeline
MaxCols == 2     \* most columns of a sheet
MaxCells == 2    \* most data cells (rows times columns) of a sheet

\* ------------------------------------------------------- characters, strings
LowerLetters == <<"a","b","c","d","e","f","g","h","i","j","k","l","m",
                  "n","o","p","q","r","s","t","u","v","w","x","y","z">>
UpperLetters == <<"A","B","C","D","E","F","G","H","I","J","K","L","M",
                  "N","O","P","Q","R","S","T","U","V","W","X","Y","Z">>
Digits == {"0","1","2","3","4","5","6","7","8","9"}
Whitespace == {" "}

Range(f) == {f[i] : i \in DOMAIN f}

\* The characters the pattern [^a-z0-9_] leaves alone.
KeyChars == Range(LowerLetters) \cup Digits \cup {"_"}

\* str.lower() on one character: ASCII and accented capitals have a lower case.
LowerChar(c) ==
    IF \E i \in DOMAIN UpperLetters : UpperLetters[i] = c
    THEN LowerLetters[CHOOSE i \in DOMAIN UpperLetters : UpperLetters[i] = c]
    ELSE IF c = "É" THEN "é" ELSE c

RECURSIVE LStrip(_)
LStrip(s) ==
    IF s = <<>> THEN s
    ELSE IF Head(s) \in Whitespace THEN LStrip(Tail(s)) ELSE s

RECURSIVE RStrip(_)
RStrip(s) ==
    IF s = <<>> THEN s
    ELSE IF s[Len(s)] \in Whitespace THEN RStrip(SubSeq(s, 1, Len(s) - 1)) ELSE s

\* .str.strip()
Strip(s) == RStrip(LStrip(s))

\* .str.lower()
Lower(s) == [i \in 1..Len(s) |-> LowerChar(s[i])]

\* A pattern \W+ in place of [^a-z0-9_]+ would keep accented letters.
InClassW(c) == c \in KeyChars \cup {"é"}

\* c is matched by [a-z0-9_], that is, not by the pattern's class [^a-z0-9_].
InClass(c) == c \in KeyChars

\* re.sub of [^a-z0-9_]+ by "_": inRun says the previous character was replaced.
RECURSIVE ReplaceRuns(_, _)
ReplaceRuns(s, inRun) ==
    IF s = <<>> THEN <<>>
    ELSE IF InClass(Head(s)) THEN <<Head(s)>> \o ReplaceRuns(Tail(s), FALSE)
    ELSE IF inRun THEN ReplaceRuns(Tail(s), TRUE)
    ELSE <<"_">> \o ReplaceRuns(Tail(s), TRUE)

\* The pattern without its +: every character outside the class becomes "_".
RegexReplacePerChar(s) == [i \in 1..Len(s) |-> IF InClass(s[i]) THEN s[i] ELSE "_"]

\* The replacement done once only (count=1): later runs are left as they are.
RECURSIVE ReplaceFirstRun(_, _)
ReplaceFirstRun(s, state) ==
    IF s = <<>> THEN <<>>
    ELSE IF state = "after" THEN s
    ELSE IF InClass(Head(s))
         THEN <<Head(s)>> \o ReplaceFirstRun(Tail(s), IF state = "in" THEN "after" ELSE state)
    ELSE IF state = "in" THEN ReplaceFirstRun(Tail(s), "in")
    ELSE <<"_">> \o ReplaceFirstRun(Tail(s), "in")

RegexReplaceFirst(s) == ReplaceFirstRun(s, "before")

\* .str.replace(r'[^a-z0-9_]+', '_', regex=True)
RegexReplace(s) == ReplaceRuns(s, FALSE)

\* Line 28 on one column name.
NormalizeColumn(h) == RegexReplace(Lower(Strip(h)))

\* ----------------------------------------------- the pipeline on one header
NormAlphabet == {"a", "A", "1", "_", " ", "%", "é", "É"}

StringsUpTo(alphabet, n) == UNION {[1..k -> alphabet] : k \in 0..n}

\* "Emotion Score (%)"
EmotionHeader == <<"E","m","o","t","i","o","n"," ","S","c","o","r","e"," ","(","%",")">>

NormIdle == nraw = <<>> /\ ncur = <<>> /\ nagain = <<>> /\ npc = "idle"

ConvIdle ==
    /\ pc = "idle"
    /\ inputExists = FALSE
    /\ sheet = [headers |-> <<>>, rows |-> <<>>]
    /\ outPrior = [kind |-> "absent", recs |-> <<>>, complete |-> FALSE]
    /\ outFile = outPrior
    /\ df = [columns |-> <<>>, rows |-> <<>>]
    /\ data_list = <<>>
    /\ printed = <<>>
    /\ exc = [stage |-> "none", type |-> "none", env |-> FALSE]
    /\ result = "pending"

InitNorm ==
    /\ nraw \in StringsUpTo(NormAlphabet, MaxLen) \cup {EmotionHeader}
    /\ ncur = nraw
    /\ nagain = <<>>
    /\ npc = "strip"
    /\ ConvIdle

NStrip ==
    /\ npc = "strip"
    /\ ncur' = Strip(ncur)
    /\ npc' = "lower"
    /\ UNCHANGED <<nraw, nagain>>
    /\ UNCHANGED cvars

NLower ==
    /\ npc = "lower"
    /\ ncur' = Lower(ncur)
    /\ npc' = "replace"
    /\ UNCHANGED <<nraw, nagain>>
    /\ UNCHANGED cvars

NReplace ==
    /\ npc = "replace"
    /\ ncur' = RegexReplace(ncur)
    /\ npc' = "done"
    /\ UNCHANGED <<nraw, nagain>>
    /\ UNCHANGED cvars

\* The normalized header is fed through line 28 a second time.
NAgain ==
    /\ npc = "done"
    /\ nagain' = NormalizeColumn(ncur)
    /\ npc' = "redone"
    /\ UNCHANGED <<nraw, ncur>>
    /\ UNCHANGED cvars

NextNorm == NStrip \/ NLower \/ NReplace \/ NAgain

SpecNorm == InitNorm /\ [][NextNorm]_vars

\* ------------------------------------------------------------ cell values
\* One value: t is its type, s its text, and m, d a decimal number m * 10^(-d)
\* (for a date, m is the day as yyyymmdd).
Value(t, s, m, d) == [t |-> t, s |-> s, m |-> m, d |-> d]

EmptyCell == Value("empty", "", 0, 0)
TextCell(x) == Value("text", x, 0, 0)
NumCell(m, d) == Value("number", "", m, d)
DateCell(ymd) == Value("date", "", ymd, 0)

NaN == Value("nan", "", 0, 0)
JNull == Value("null", "", 0, 0)
JString(x) == Value("string", x, 0, 0)
JNumber(m, d) == Value("jnumber", "", m, d)

RECURSIVE Pow10(_)
Pow10(n) == IF n <= 0 THEN 1 ELSE 10 * Pow10(n - 1)

\* to_json's default double_precision: decimal places kept of a floating point value.
DoublePrecision == 10

\* The texts read_excel turns into NaN by default (keep_default_na=True).
NAStrings == {"", "#N/A", "#N/A N/A", "#NA", "-1.#IND", "-1.#QNAN", "-NaN", "-nan",
              "1.#IND", "1.#QNAN", "<NA>", "N/A", "NA", "NULL", "NaN", "None",
              "n/a", "nan", "null"}

\* A cell as read_excel loads it into the DataFrame.
ReadCell(c) ==
    IF c.t = "empty" THEN NaN
    ELSE IF c.t = "text" /\ c.s \in NAStrings THEN NaN
    ELSE c

Pad2(n) == IF n < 10 THEN "0" \o ToString(n) ELSE ToString(n)

\* date_format='iso' with the default date_unit 'ms'.
IsoFormat(ymd) ==
    ToString(ymd \div 10000) \o "-" \o Pad2((ymd \div 100) % 100) \o "-"
        \o Pad2(ymd % 100) \o "T00:00:00.000"

\* A number with more than DoublePrecision decimals is rounded to that many:
\* up past the half, and at the half when the kept part is 0 or odd.
RoundDouble(m, d) ==
    IF d <= DoublePrecision THEN JNumber(m, d)
    ELSE LET p == Pow10(d - DoublePrecision)
             frac == m \div p
             diff == m % p
             up == \/ 2 * diff > p
                   \/ (2 * diff = p /\ (frac = 0 \/ frac % 2 = 1))
         IN JNumber(IF up THEN frac + 1 ELSE frac, DoublePrecision)

\* A DataFrame value as df.to_json writes it and json.loads reads it back.
JsonValue(v) ==
    CASE v.t = "nan" -> JNull
      [] v.t = "date" -> JString(IsoFormat(v.m))
      [] v.t = "number" -> RoundDouble(v.m, v.d)
      [] OTHER -> JString(v.s)

\* ------------------------------------------------------------- the sheet
\* "a", "A", " B%", "é"
HeaderPool == { <<"a">>, <<"A">>, <<" ", "B", "%">>, <<"é">> }

CellPool == { EmptyCell, TextCell("joy"), TextCell("N/A"), NumCell(42, 0),
              NumCell(3, 11), DateCell(20240315) }

\* The sheet's used range ends at its last row that holds a value.
UsedRange(rows) ==
    rows = <<>> \/ \E c \in DOMAIN rows[Len(rows)] : rows[Len(rows)][c] # EmptyCell

Sheets ==
    UNION { { [headers |-> h, rows |-> r] :
                h \in [1..nc -> HeaderPool],
                r \in { x \in UNION {[1..nr -> [1..nc -> CellPool]] : nr \in 0..(MaxCells \div nc)} :
                          UsedRange(x) } } :
            nc \in 1..MaxCols }

NoSheet == [headers |-> <<>>, rows |-> <<>>]

Absent == [kind |-> "absent", recs |-> <<>>, complete |-> FALSE]
PriorFile == [kind |-> "prior", recs |-> <<>>, complete |-> TRUE]
NoExc == [stage |-> "none", type |-> "none", env |-> FALSE]

\* ------------------------------------------------------------- read_excel
\* mangle_dupe_cols: the k-th repeat of a header h is loaded as "h.k".
MangleDupes(names) ==
    [i \in 1..Len(names) |->
        LET k == Cardinality({j \in 1..(i - 1) : names[j] = names[i]})
        IN IF k = 0 THEN names[i] ELSE names[i] \o <<".", ToString(k)>>]

\* skiprows=1 in place of header=0 alone: the first data row is lost.
ReadExcelSkipsRow(s) ==
    [columns |-> MangleDupes(s.headers),
     rows |-> [i \in 1..(Len(s.rows) - 1) |->
                 [c \in 1..Len(s.headers) |-> ReadCell(s.rows[i + 1][c])]]]

\* pd.read_excel(excel_file_path, header=0)
ReadExcel(s) ==
    [columns |-> MangleDupes(s.headers),
     rows |-> [i \in 1..Len(s.rows) |->
                 [c \in 1..Len(s.headers) |-> ReadCell(s.rows[i][c])]]]

\* df.columns = df.columns.str.strip().str.lower().str.replace(...)
NormalizeColumns(d) ==
    [d EXCEPT !.columns = [i \in 1..Len(d.columns) |-> NormalizeColumn(d.columns[i])]]

\* ---------------------------------------------------------------- to_json
IsUnique(cols) == \A i, j \in DOMAIN cols : cols[i] = cols[j] => i = j

LastIndex(cols, k) == CHOOSE i \in DOMAIN cols : cols[i] = k /\ \A j \in DOMAIN cols : cols[j] = k => j <= i

Records(d) ==
    [i \in 1..Len(d.rows) |->
        [k \in Range(d.columns) |-> JsonValue(d.rows[i][LastIndex(d.columns, k)])]]

\* A serializer that writes repeated keys, of which json.loads keeps the last.
ToJsonLastWins(d) == [exc |-> "none", recs |-> Records(d)]

\* A serializer that refuses a frame without rows.
ToJsonRejectsEmpty(d) ==
    IF d.rows = <<>> \/ ~IsUnique(d.columns) THEN [exc |-> "ValueError", recs |-> <<>>]
    ELSE [exc |-> "none", recs |-> Records(d)]

\* json.loads(df.to_json(orient='records', date_format='iso')): to_json raises
\* ValueError when the column names are not unique.
ToJson(d) ==
    IF IsUnique(d.columns) THEN [exc |-> "none", recs |-> Records(d)]
    ELSE [exc |-> "ValueError", recs |-> <<>>]

\* ------------------------------------------------------------ the function
Msg(m) == [msg |-> m, n |-> 0]

\* raise FileNotFoundError(...) in place of the two prints and return False.
CheckOutcomeRaises(exists) ==
    IF ~exists THEN [result |-> "raised", msgs |-> <<>>]
    ELSE [result |-> "pending", msgs |-> <<>>]

\* Lines 17-20.
CheckOutcome(exists) ==
    IF ~exists
    THEN [result |-> "False", msgs |-> <<Msg("excel_not_found"), Msg("ensure_same_directory")>>]
    ELSE [result |-> "pending", msgs |-> <<>>]

\* The except clauses without the final `except Exception`.
HandlerNoCatchAll(type) ==
    CASE type = "FileNotFoundError" -> [result |-> "False", msgs |-> <<Msg("was_not_found")>>]
      [] type = "EmptyDataError" -> [result |-> "False", msgs |-> <<Msg("is_empty")>>]
      [] OTHER -> [result |-> "raised", msgs |-> <<>>]

\* Lines 41-50: the except clause that catches an exception of this type.
Handler(type) ==
    CASE type = "FileNotFoundError" -> [result |-> "False", msgs |-> <<Msg("was_not_found")>>]
      [] type = "EmptyDataError" -> [result |-> "False", msgs |-> <<Msg("is_empty")>>]
      [] OTHER -> [result |-> "False", msgs |-> <<Msg("unexpected_error"), Msg("error_details")>>]

\* The output file opened before the rows are serialized.
NextStageOpenFirst(stage) ==
    CASE stage = "check" -> "load"
      [] stage = "load" -> "normalize"
      [] stage = "normalize" -> "open"
      [] stage = "open" -> "serialize"
      [] stage = "serialize" -> "dump"
      [] stage = "dump" -> "report"
      [] OTHER -> "done"

\* The order of the statements of the function body.
NextStage(stage) ==
    CASE stage = "check" -> "load"
      [] stage = "load" -> "normalize"
      [] stage = "normalize" -> "serialize"
      [] stage = "serialize" -> "open"
      [] stage = "open" -> "dump"
      [] stage = "dump" -> "report"
      [] OTHER -> "done"

\* What the environment can make a statement of the try block raise.
FaultTypes(stage) ==
    CASE stage = "load" -> {"FileNotFoundError", "EmptyDataError", "BadZipFile"}
      [] stage = "normalize" -> {"AttributeError"}
      [] stage = "serialize" -> {"OverflowError"}
      [] stage = "open" -> {"PermissionError", "FileNotFoundError"}
      [] stage = "dump" -> {"OSError"}
      [] stage = "report" -> {"UnicodeEncodeError"}
      [] OTHER -> {}

\* An exception of this type leaves the try block at this stage.
Raise(stage, type, env) ==
    /\ exc' = [stage |-> stage, type |-> type, env |-> env]
    /\ result' = Handler(type).result
    /\ printed' = printed \o Handler(type).msgs
    /\ pc' = "done"

Init ==
    /\ NormIdle
    /\ pc = "check"
    /\ inputExists \in BOOLEAN
    /\ sheet \in (IF inputExists THEN Sheets ELSE {NoSheet})
    /\ outPrior \in {Absent, PriorFile}
    /\ outFile = outPrior
    /\ df = [columns |-> <<>>, rows |-> <<>>]
    /\ data_list = <<>>
    /\ printed = <<>>
    /\ exc = NoExc
    /\ result = "pending"

\* Lines 17-20.
Check ==
    /\ pc = "check"
    /\ LET o == CheckOutcome(inputExists)
       IN /\ printed' = printed \o o.msgs
          /\ result' = o.result
          /\ pc' = IF o.result = "pending" THEN NextStage("check") ELSE "done"
    /\ UNCHANGED <<inputExists, sheet, outPrior, outFile, df, data_list, exc>>
    /\ UNCHANGED nvars

\* Line 24.
Load ==
    /\ pc = "load"
    /\ \/ /\ df' = ReadExcel(sheet)
          /\ pc' = NextStage("load")
          /\ UNCHANGED <<printed, exc, result>>
       \/ /\ \E type \in FaultTypes("load") : Raise("load", type, TRUE)
          /\ UNCHANGED df
    /\ UNCHANGED <<inputExists, sheet, outPrior, outFile, data_list>>
    /\ UNCHANGED nvars

\* Line 28.
Normalize ==
    /\ pc = "normalize"
    /\ \/ /\ df' = NormalizeColumns(df)
          /\ pc' = NextStage("normalize")
          /\ UNCHANGED <<printed, exc, result>>
       \/ /\ \E type \in FaultTypes("normalize") : Raise("normalize", type, TRUE)
          /\ UNCHANGED df
    /\ UNCHANGED <<inputExists, sheet, outPrior, outFile, data_list>>
    /\ UNCHANGED nvars

\* Line 31.
Serialize ==
    /\ pc = "serialize"
    /\ \/ /\ ToJson(df).exc = "none"
          /\ data_list' = ToJson(df).recs
          /\ pc' = NextStage("serialize")
          /\ UNCHANGED <<printed, exc, result>>
       \/ /\ ToJson(df).exc # "none"
          /\ Raise("serialize", ToJson(df).exc, FALSE)
          /\ UNCHANGED data_list
       \/ /\ \E type \in FaultTypes("serialize") : Raise("serialize", type, TRUE)
          /\ UNCHANGED data_list
    /\ UNCHANGED <<inputExists, sheet, outPrior, outFile, df>>
    /\ UNCHANGED nvars

\* Line 34: open(json_output_path, 'w') creates the file or empties it.
Open ==
    /\ pc = "open"
    /\ \/ /\ outFile' = [kind |-> "written", recs |-> <<>>, complete |-> FALSE]
          /\ pc' = NextStage("open")
          /\ UNCHANGED <<printed, exc, result>>
       \/ /\ \E type \in FaultTypes("open") : Raise("open", type, TRUE)
          /\ UNCHANGED outFile
    /\ UNCHANGED <<inputExists, sheet, outPrior, df, data_list>>
    /\ UNCHANGED nvars

\* Line 35 and the end of the with block: a failed write leaves some prefix.
Dump ==
    /\ pc = "dump"
    /\ \/ /\ outFile' = [kind |-> "written", recs |-> data_list, complete |-> TRUE]
          /\ pc' = NextStage("dump")
          /\ UNCHANGED <<printed, exc, result>>
       \/ /\ \E type \in FaultTypes("dump") : Raise("dump", type, TRUE)
          /\ \E k \in 0..Len(data_list) :
                outFile' = [kind |-> "written", recs |-> SubSeq(data_list, 1, k),
                            complete |-> FALSE]
    /\ UNCHANGED <<inputExists, sheet, outPrior, df, data_list>>
    /\ UNCHANGED nvars

\* Lines 37-39.
Report ==
    /\ pc = "report"
    /\ \/ /\ printed' = printed \o <<Msg("successfully_converted"),
                                      [msg |-> "total_records", n |-> Len(data_list)]>>
          /\ result' = "True"
          /\ pc' = NextStage("report")
          /\ UNCHANGED exc
       \/ \E type \in FaultTypes("report") : Raise("report", type, TRUE)
    /\ UNCHANGED <<inputExists, sheet, outPrior, outFile, df, data_list>>
    /\ UNCHANGED nvars

Next == Check \/ Load \/ Normalize \/ Serialize \/ Open \/ Dump \/ Report

Spec == Init /\ [][Next]_vars

\* ================================================================ properties

\* The count printed by line 38, if the success report was printed.
PrintedTotals == {printed[i].n : i \in {j \in DOMAIN printed : printed[j].msg = "total_records"}}

\* The DataFrame columns of the sheet as line 31 receives them.
ColumnsOf(s) == NormalizeColumns(ReadExcel(s)).columns

\* Two distinct headers with the same normalized key.
Collides(h) ==
    \E i, j \in DOMAIN h : h[i] # h[j] /\ NormalizeColumn(h[i]) = NormalizeColumn(h[j])

\* A JSON number and a cell number denote the same value.
NumEq(a, b) ==
    LET D == IF a.d > b.d THEN a.d ELSE b.d
    IN a.m * Pow10(D - a.d) = b.m * Pow10(D - b.d)

\* The JSON value j equals the cell: null for an empty cell, the ISO-8601
\* string for a date, the same text or number otherwise.
ValueEqual(cell, j) ==
    CASE cell.t = "empty" -> j = JNull
      [] cell.t = "date" -> j = JString(IsoFormat(cell.m))
      [] cell.t = "number" -> j.t = "jnumber" /\ NumEq(cell, j)
      [] OTHER -> j = JString(cell.s)

\* C1: a call whose input path does not exist ends with the result False, no
\* exception escapes it, and the file at the output path is never created or
\* modified.
C1_MissingInputReturnsFalse ==
    (pc # "idle" /\ ~inputExists) =>
        /\ outFile = outPrior
        /\ result \in {"pending", "False"}
        /\ pc = "done" => result = "False"

C1_Witness == pc = "done" /\ ~inputExists /\ outPrior = PriorFile /\ result = "False"

\* C2: every exception raised by load, normalization, serialization or write
\* is caught: the call prints a diagnostic and returns False, nothing
\* propagates, and a call ends with exactly one boolean result.
C2_FailuresReturnFalse ==
    /\ result \in {"pending", "True", "False"}
    /\ (pc = "done") <=> (result \in {"True", "False"})
    /\ exc.stage # "none" =>
          /\ pc = "done"
          /\ result = "False"
          /\ printed # <<>>
          /\ printed[Len(printed)].msg \in {"was_not_found", "is_empty", "error_details"}

C2_Witness == pc = "done" /\ exc.stage = "dump" /\ exc.type = "OSError" /\ result = "False"

\* C3: when the call returns True, the output array holds as many Records as
\* the sheet has data rows, and that is the count the success report prints.
C3_RecordCount ==
    result = "True" =>
        /\ outFile.kind = "written" /\ outFile.complete
        /\ Len(outFile.recs) = Len(sheet.rows)
        /\ PrintedTotals = {Len(sheet.rows)}

C3_Witness == result = "True" /\ Len(sheet.rows) = 2 /\ Len(outFile.recs) = 2

\* C4: when the call returns True, the i-th Record holds, under the normalized
\* name of every column c, a value equal to cell (i, c): null for an empty
\* cell, the ISO-8601 string for a date.
C4_RoundTrip ==
    result = "True" =>
        \A i \in DOMAIN sheet.rows : \A c \in DOMAIN sheet.headers :
            /\ i \in DOMAIN outFile.recs
            /\ NormalizeColumn(sheet.headers[c]) \in DOMAIN outFile.recs[i]
            /\ ValueEqual(sheet.rows[i][c], outFile.recs[i][NormalizeColumn(sheet.headers[c])])

\* C5, as claimed: a sheet with a header row and no data rows makes the call
\* return False.
C5_EmptySheetFails ==
    (pc = "done" /\ inputExists /\ sheet.rows = <<>>) => result = "False"

\* C5, amended: a sheet with a header row and no data rows is not a failure:
\* unless a step raises for another reason (a fault of the environment, or
\* column names that are not unique after normalization), the call writes an
\* empty array, prints a total of 0 records and returns True.
C5_EmptySheetSucceeds ==
    (pc = "done" /\ inputExists /\ sheet.rows = <<>> /\ ~exc.env
        /\ IsUnique(ColumnsOf(sheet))) =>
            /\ result = "True"
            /\ outFile = [kind |-> "written", recs |-> <<>>, complete |-> TRUE]
            /\ PrintedTotals = {0}

C5_Witness ==
    pc = "done" /\ inputExists /\ sheet.rows = <<>> /\ result = "True" /\ outFile.complete

\* "emotion_score____"
EmotionKeyClaimed == <<"e","m","o","t","i","o","n","_","s","c","o","r","e","_","_","_","_">>

\* "emotion_score_"
EmotionKey == <<"e","m","o","t","i","o","n","_","s","c","o","r","e","_">>

\* C6, as claimed: "Emotion Score (%)" normalizes to emotion_score____.
C6_EmotionScoreFourUnderscores ==
    (npc = "done" /\ nraw = EmotionHeader) => ncur = EmotionKeyClaimed

\* C6, amended: "Emotion Score (%)" normalizes to emotion_score_ : the run
\* " (%)" of four characters outside [a-z0-9_] becomes one underscore.
C6_EmotionScoreKey ==
    (npc = "done" /\ nraw = EmotionHeader) => ncur = EmotionKey

C6_Witness == npc = "done" /\ nraw = EmotionHeader /\ Len(ncur) = Len(EmotionKey)

\* C7: normalizing a normalized header gives the same string.
C7_Idempotent == npc = "redone" => nagain = ncur

C7_Witness == npc = "redone" /\ nraw = <<"%", "A", " ">> /\ ncur = <<"_", "a">>

\* C8, as claimed: when two distinct headers normalize to the same key the
\* conversion still succeeds, each Record holding the later column's value
\* under that key.
C8_CollisionLastWins ==
    (pc = "done" /\ inputExists /\ Collides(sheet.headers) /\ sheet.rows # <<>>
        /\ ~exc.env) =>
        /\ result = "True"
        /\ \A i \in DOMAIN outFile.recs : \A k \in DOMAIN outFile.recs[i] :
              outFile.recs[i][k] = JsonValue(df.rows[i][LastIndex(df.columns, k)])

\* C8, amended: when two distinct headers normalize to the same key, the
\* serializer rejects the repeated column name: the call prints a diagnostic
\* and returns False, and the output file is neither created nor modified.
C8_CollisionRejected ==
    (pc = "done" /\ inputExists /\ Collides(sheet.headers)) =>
        /\ result = "False"
        /\ outFile = outPrior
        /\ printed # <<>>
        /\ ~exc.env => exc = [stage |-> "serialize", type |-> "ValueError", env |-> FALSE]

C8_Witness ==
    /\ pc = "done" /\ Collides(sheet.headers) /\ sheet.rows # <<>>
    /\ exc.type = "ValueError" /\ result = "False"

\* C9: the output file is opened only after load, normalization and
\* serialization have succeeded: a failure of the existence check, the load,
\* the normalization or the serialization leaves the file at the output path
\* as it was, and a False result with a truncated or partly written file comes
\* from a failure of the write itself.
C9_OutputUntouchedBeforeWrite ==
    /\ (exc.stage \in {"load", "normalize", "serialize"} \/ (pc = "done" /\ ~inputExists))
          => outFile = outPrior
    /\ outFile # outPrior => pc \in {"dump", "report", "done"}
    /\ (result = "False" /\ outFile.kind = "written" /\ ~outFile.complete)
          => exc.stage = "dump"

C9_Witness ==
    pc = "done" /\ exc.stage = "serialize" /\ outPrior = PriorFile /\ outFile = PriorFile

\* C10: every key of every Record written consists of characters of
\* [a-z0-9_] only.
C10_KeysInClass ==
    \A i \in DOMAIN outFile.recs : \A k \in DOMAIN outFile.recs[i] :
        \A n \in DOMAIN k : k[n] \in Range(LowerLetters) \cup Digits \cup {"_"}

C10_Witness ==
    /\ result = "True" /\ outFile.recs # <<>>
    /\ \E c \in DOMAIN sheet.headers : sheet.headers[c] = <<"é">>
    /\ <<"_">> \in DOMAIN outFile.recs[1]

====
